---- MODULE Spec2Model ----
(***************************************************************************)
(* fast_escape: the ContainsChar sets, the Union combinator and the        *)
(* Escaper transform of src/lib.rs, driven one character at a time against *)
(* a sink whose write_char either appends the character or fails.          *)
(*                                                                         *)
(* A character is its Unicode scalar value.  A set of chars is a record    *)
(* tagged with the implementing type.                                      *)
(***************************************************************************)
EXTENDS Integers, Sequences, FiniteSets, TLC

VARIABLES
    chars,    \* Escaper.chars: the set of special chars
    escape,   \* Escaper.escape
    input,    \* the characters handed to transform_char so far, in order
    out,      \* what the sink holds
    calls,    \* the write_char calls of the last transform_char, with results
    ret,      \* what the last transform_char returned ("none" before the first)
    input2,   \* a second text, written through the same Escaper ...
    out2,     \* ... into a second sink
    query,    \* <<>> or <<[c, res]>>: the last contains_char(c) and its result
    hint      \* <<>> or <<[arg, value, panicked]>>: the last transform_size_hint

vars == <<chars, escape, input, out, calls, ret, input2, out2, query, hint>>

----------------------------------------------------------------------------
(* Bounds *)

NumChars == 3      \* characters of the alphabet (a prefix of CharTable)
MaxLen == 3        \* characters written through the Escaper
MaxPairLen == 2    \* the same, when two texts are written side by side
MaxSlice == 2      \* elements of a [char] set
MaxUnion == 2      \* union() calls building one set
MaxRef == 1        \* & taken of a set
UsizeBits == 4     \* width of usize

\* '\', '$', e-acute, euro sign, U+1F600, 'a': the four UTF-8 widths
CharTable == <<92, 36, 233, 8364, 128512, 97>>

Chars == {CharTable[i] : i \in 1..NumChars}
EscapeChars == {CharTable[i] : i \in DOMAIN CharTable}
\* the characters asked of a set: the alphabet and its immediate neighbours below
ProbeChars == Chars \cup {c - 1 : c \in Chars}

UsizeMax == 2^UsizeBits - 1

Ok == "ok"
SinkErrors == {"E1", "E2"}
Outcomes == {Ok} \cup SinkErrors

SeqsUpTo(S, n) == UNION {[1..k -> S] : k \in 0..n}

----------------------------------------------------------------------------
(* The sets of chars *)

CharSet(x) == [tag |-> "char", x |-> x]
SliceSet(items) == [tag |-> "slice", items |-> items]
RangeSet(start, end) == [tag |-> "range", start |-> start, end |-> end]
RangeFromSet(start) == [tag |-> "from", start |-> start]
RangeToSet(end) == [tag |-> "to", end |-> end]
RangeFullSet == [tag |-> "full"]
\* Predicate(f), f the function that is true exactly on the characters of `on`
PredicateSet(on) == [tag |-> "pred", on |-> on]
RefSet(inner) == [tag |-> "ref", inner |-> inner]

Union_new(a, b) == [tag |-> "union", a |-> a, b |-> b]

union(self, other) == Union_new(self, other)

RECURSIVE contains_char(_, _)

ref_contains_char(self, c) == contains_char(self.inner, c)

char_contains_char(self, c) == c = self.x

slice_contains_char(self, c) == \E i \in DOMAIN self.items : self.items[i] = c

range_wrong_bound(self, c) == c >= self.start /\ c <= self.end
range_contains_char(self, c) == c >= self.start /\ c < self.end

range_from_contains_char(self, c) == c >= self.start

range_to_inclusive(self, c) == c <= self.end
range_to_contains_char(self, c) == c < self.end

range_full_contains_char(self, c) == TRUE

union_both(self, c) == contains_char(self.a, c) /\ contains_char(self.b, c)
union_contains_char(self, c) == contains_char(self.a, c) \/ contains_char(self.b, c)

predicate_contains_char(self, c) == c \in self.on

contains_char(self, c) ==
    CASE self.tag = "ref" -> ref_contains_char(self, c)
      [] self.tag = "char" -> char_contains_char(self, c)
      [] self.tag = "slice" -> slice_contains_char(self, c)
      [] self.tag = "range" -> range_contains_char(self, c)
      [] self.tag = "from" -> range_from_contains_char(self, c)
      [] self.tag = "to" -> range_to_contains_char(self, c)
      [] self.tag = "full" -> range_full_contains_char(self, c)
      [] self.tag = "union" -> union_contains_char(self, c)
      [] self.tag = "pred" -> predicate_contains_char(self, c)

\* one set of every implementing type, over the alphabet
BaseSets ==
    {CharSet(x) : x \in Chars}
    \cup {SliceSet(s) : s \in SeqsUpTo(Chars, MaxSlice)}
    \cup {RangeSet(a, b) : a \in Chars, b \in Chars}
    \cup {RangeFromSet(a) : a \in Chars}
    \cup {RangeToSet(b) : b \in Chars}
    \cup {RangeFullSet}
    \cup {PredicateSet(on) : on \in SUBSET Chars}

\* the right-hand operands of union()
OperandSets ==
    {RangeSet(CharTable[2], CharTable[1]),
     RefSet(RangeFromSet(CharTable[3])),
     Union_new(CharSet(CharTable[1]), RangeToSet(CharTable[2]))}

\* the sets an Escaper is built with
EscaperSets ==
    {PredicateSet(on) : on \in SUBSET Chars}
    \cup {CharSet(x) : x \in Chars}
    \cup {RangeSet(CharTable[2], CharTable[3]), RangeFullSet,
          RefSet(SliceSet(<<CharTable[2], CharTable[1]>>)),
          union(RangeSet(CharTable[2], CharTable[1]), RangeFromSet(CharTable[3]))}

PairSets ==
    {CharSet(x) : x \in Chars}
    \cup {RangeFullSet, RangeSet(CharTable[1], CharTable[1]),
          RefSet(SliceSet(<<CharTable[2], CharTable[1]>>))}

HintSets == {CharSet(CharTable[2]), RangeFullSet, RangeToSet(CharTable[2])}

RECURSIVE UnionDepth(_)
UnionDepth(s) ==
    CASE s.tag = "union" -> 1 + UnionDepth(s.a)
      [] s.tag = "ref" -> UnionDepth(s.inner)
      [] OTHER -> 0

RECURSIVE RefDepth(_)
RefDepth(s) ==
    CASE s.tag = "union" -> RefDepth(s.a)
      [] s.tag = "ref" -> 1 + RefDepth(s.inner)
      [] OTHER -> 0

----------------------------------------------------------------------------
(* The sink and the Escaper *)

Escaper_new(escape_char, special_chars) == [chars |-> special_chars, escape |-> escape_char]

Self == Escaper_new(escape, chars)

\* A sink: what it holds, the write_char calls made on it, the last result.
Sink(buf) == [buf |-> buf, calls |-> <<>>, ret |-> Ok]

\* writer.write_char(ch), the sink answering o
write_char(w, ch, o) ==
    [buf |-> IF o = Ok THEN Append(w.buf, ch) ELSE w.buf,
     calls |-> Append(w.calls, [ch |-> ch, res |-> o]),
     ret |-> o]

transform_char_swapped(self, w, c, o1, o2) ==
    IF contains_char(self.chars, c)
      THEN LET r == write_char(w, c, o1)
           IN  IF r.ret # Ok THEN r ELSE write_char(r, self.escape, o2)
      ELSE write_char(w, c, o1)

transform_char_drops(self, w, c, o1, o2) ==
    IF contains_char(self.chars, c)
      THEN write_char(w, self.escape, o1)
      ELSE write_char(w, c, o1)

transform_char_ignores_error(self, w, c, o1, o2) ==
    IF contains_char(self.chars, c)
      THEN write_char(write_char(w, self.escape, o1), c, o2)
      ELSE write_char(w, c, o1)

transform_char_plain_escape(self, w, c, o1, o2) ==
    IF contains_char(self.chars, c) /\ c # self.escape
      THEN LET r == write_char(w, self.escape, o1)
           IN  IF r.ret # Ok THEN r ELSE write_char(r, c, o2)
      ELSE write_char(w, c, o1)

transform_char_escape_twice(self, w, c, o1, o2) ==
    IF contains_char(self.chars, c)
      THEN LET r == write_char(w, self.escape, o1)
           IN  IF r.ret # Ok THEN r ELSE write_char(r, self.escape, o2)
      ELSE write_char(w, c, o1)

\* o1, o2: the sink's answers to the first and the second write_char
transform_char(self, w, c, o1, o2) ==
    IF contains_char(self.chars, c)
      THEN LET r == write_char(w, self.escape, o1)
           IN  IF r.ret # Ok THEN r ELSE write_char(r, c, o2)
      ELSE write_char(w, c, o1)

len_utf8(c) ==
    IF c < 128 THEN 1
    ELSE IF c < 2048 THEN 2
    ELSE IF c < 65536 THEN 3
    ELSE 4

\* bytes * len_utf8 in usize: an overflow panics (overflow checks on) or wraps
transform_size_hint(self, bytes) ==
    LET product == bytes * len_utf8(self.escape)
    IN  IF product <= UsizeMax
          THEN {[arg |-> bytes, value |-> product, panicked |-> FALSE]}
          ELSE {[arg |-> bytes, value |-> product % (UsizeMax + 1), panicked |-> FALSE],
                [arg |-> bytes, value |-> 0, panicked |-> TRUE]}

----------------------------------------------------------------------------
(* Initial states *)

InitRest ==
    /\ input = <<>>
    /\ out = <<>>
    /\ calls = <<>>
    /\ ret = "none"
    /\ input2 = <<>>
    /\ out2 = <<>>
    /\ query = <<>>
    /\ hint = <<>>

Init ==
    /\ chars \in EscaperSets
    /\ escape \in Chars
    /\ InitRest

InitSet ==
    /\ chars \in BaseSets
    /\ escape = CharTable[1]
    /\ InitRest

InitPair ==
    /\ chars \in PairSets
    /\ escape \in Chars
    /\ InitRest

InitHint ==
    /\ chars \in HintSets
    /\ escape \in EscapeChars
    /\ InitRest

----------------------------------------------------------------------------
(* Actions *)

\* the writer hands c to the Escaper; it stops at the first error
TransformChar(c, o1, o2) ==
    /\ ret \in {"none", Ok}
    /\ Len(input) < MaxLen
    /\ LET r == transform_char(Self, Sink(out), c, o1, o2)
       IN  /\ out' = r.buf
           /\ calls' = r.calls
           /\ ret' = r.ret
    /\ input' = Append(input, c)
    /\ UNCHANGED <<chars, escape, input2, out2, query, hint>>

\* the first of two texts, its sink never failing
TransformFirst(c) ==
    /\ Len(input) < MaxPairLen
    /\ TransformChar(c, Ok, Ok)

\* the second text, same Escaper, its own sink that never fails
TransformSecond(c) ==
    /\ Len(input2) < MaxPairLen
    /\ LET r == transform_char(Self, Sink(out2), c, Ok, Ok)
       IN  out2' = r.buf
    /\ input2' = Append(input2, c)
    /\ UNCHANGED <<chars, escape, input, out, calls, ret, query, hint>>

TransformSizeHint(bytes) ==
    /\ hint' \in {<<h>> : h \in transform_size_hint(Self, bytes)}
    /\ UNCHANGED <<chars, escape, input, out, calls, ret, input2, out2, query>>

UnionStep(other) ==
    /\ UnionDepth(chars) < MaxUnion
    /\ chars' = union(chars, other)
    /\ query' = <<>>
    /\ UNCHANGED <<escape, input, out, calls, ret, input2, out2, hint>>

RefStep ==
    /\ RefDepth(chars) < MaxRef
    /\ chars' = RefSet(chars)
    /\ query' = <<>>
    /\ UNCHANGED <<escape, input, out, calls, ret, input2, out2, hint>>

ContainsCharStep(c) ==
    /\ query' = <<[c |-> c, res |-> contains_char(chars, c)]>>
    /\ UNCHANGED <<chars, escape, input, out, calls, ret, input2, out2, hint>>

----------------------------------------------------------------------------
(* Specifications *)

Next == \E c \in Chars, o1 \in Outcomes, o2 \in Outcomes : TransformChar(c, o1, o2)

Spec == Init /\ [][Next]_vars

NextSet ==
    \/ \E other \in OperandSets : UnionStep(other)
    \/ RefStep
    \/ \E c \in ProbeChars : ContainsCharStep(c)

SpecSet == InitSet /\ [][NextSet]_vars

NextPair ==
    \/ \E c \in Chars : TransformFirst(c)
    \/ \E c \in Chars : TransformSecond(c)

SpecPair == InitPair /\ [][NextPair]_vars

NextHint ==
    \/ \E c \in Chars : TransformChar(c, Ok, Ok)
    \/ \E bytes \in 0..UsizeMax : TransformSizeHint(bytes)

SpecHint == InitHint /\ [][NextHint]_vars

----------------------------------------------------------------------------
(* What the claims speak of *)

IsSpecial(c) == contains_char(chars, c)

Delivered == ret \in {"none", Ok}

\* [e, c] for a special c, [c] otherwise
Escaped(c) == IF IsSpecial(c) THEN <<escape, c>> ELSE <<c>>

RECURSIVE Expected(_)
Expected(s) ==
    IF s = <<>> THEN <<>>
    ELSE Expected(SubSeq(s, 1, Len(s) - 1)) \o Escaped(s[Len(s)])

SpecialCount(s, k) == Cardinality({i \in 1..k : IsSpecial(s[i])})

\* where the i-th input character stands in the output
Pos(s, i) == i + SpecialCount(s, i)

Elems(s) == {s[i] : i \in DOMAIN s}

RECURSIVE Bytes(_)
Bytes(s) == IF s = <<>> THEN 0 ELSE len_utf8(Head(s)) + Bytes(Tail(s))

\* the decoder that knows e only: on e, drop it and copy the next character
RECURSIVE Decode(_)
Decode(s) ==
    IF s = <<>> THEN <<>>
    ELSE IF Head(s) = escape
      THEN IF Len(s) >= 2 THEN <<s[2]>> \o Decode(SubSeq(s, 3, Len(s))) ELSE <<>>
      ELSE <<Head(s)>> \o Decode(Tail(s))

\* the whole of a text through transform_char, the sink never failing
RECURSIVE EscapeAll(_, _)
EscapeAll(self, s) ==
    IF s = <<>> THEN <<>>
    ELSE transform_char(self, Sink(EscapeAll(self, SubSeq(s, 1, Len(s) - 1))),
                        s[Len(s)], Ok, Ok).buf

RECURSIVE Leaves(_)
Leaves(s) == IF s.tag = "union" THEN Leaves(s.a) \cup Leaves(s.b) ELSE {s}

CharBefore(a) == IF a = 57344 THEN 55295 ELSE a - 1

Asked == query # <<>>
Q == query[1].c
Answer == query[1].res

----------------------------------------------------------------------------
(* Claims *)

\* C1: with a sink that never fails, the sink holds exactly the concatenation,
\* over the input characters c in order, of [e, c] when c is special and [c]
\* otherwise, also when c = e.
C1_OutputIsConcatenation == Delivered => out = Expected(input)

C1_Witness ==
    /\ ret = Ok
    /\ Len(input) = MaxLen
    /\ \E i \in DOMAIN input : input[i] = escape /\ IsSpecial(input[i])
    /\ \E i \in DOMAIN input : ~IsSpecial(input[i])
    /\ out = Expected(input)

\* C2: after k characters the sink holds k + (number of special ones)
\* characters; every input character stands once, in order; a special one is
\* immediately preceded by one inserted escape character and nothing is
\* inserted before a non-special one.
C2_LengthAndPlacement ==
    Delivered =>
        /\ Len(out) = Len(input) + SpecialCount(input, Len(input))
        /\ \A i \in DOMAIN input :
            /\ Pos(input, i) \in DOMAIN out
            /\ out[Pos(input, i)] = input[i]
            /\ IsSpecial(input[i]) =>
                /\ Pos(input, i) - 1 = Pos(input, i - 1) + 1
                /\ out[Pos(input, i) - 1] = escape
            /\ ~IsSpecial(input[i]) => Pos(input, i) - 1 = Pos(input, i - 1)

C2_Witness ==
    /\ ret = Ok
    /\ Len(input) = MaxLen
    /\ SpecialCount(input, Len(input)) = 2
    /\ Len(out) = MaxLen + 2
    /\ ~IsSpecial(input[1])

\* C3: a union contains c iff one of its two operands does; a chain of unions
\* contains c iff one of the chained sets does; swapping the operands does not
\* change the result.
C3_UnionIsOr ==
    (Asked /\ chars.tag = "union") =>
        /\ Answer = (contains_char(chars.a, Q) \/ contains_char(chars.b, Q))
        /\ Answer = (\E s \in Leaves(chars) : contains_char(s, Q))
        /\ Answer = contains_char(union(chars.b, chars.a), Q)

C3_Witness ==
    /\ Asked
    /\ chars.tag = "union"
    /\ chars.a.tag = "union"
    /\ Answer
    /\ ~contains_char(chars.a, Q)
    /\ contains_char(chars.b, Q)

\* C4 as claimed: for a range a..b of any two characters, contains_char(a) is
\* true, contains_char(b) is false, and so is contains_char of the character
\* before a.
C4_AnyTwoCharacters ==
    (Asked /\ chars.tag = "range") =>
        /\ Q = chars.start => Answer
        /\ Q = chars.end => ~Answer
        /\ Q = CharBefore(chars.start) => ~Answer

\* C4 amended: contains_char(a) is true when a < b; contains_char(b) and
\* contains_char of the character before a are false for every a and b.
C4_RangeBoundaries ==
    (Asked /\ chars.tag = "range") =>
        /\ (Q = chars.start /\ chars.start < chars.end) => Answer
        /\ Q = chars.end => ~Answer
        /\ Q = CharBefore(chars.start) => ~Answer

C4_Witness ==
    /\ Asked
    /\ chars.tag = "range"
    /\ chars.start < chars.end
    /\ Q = chars.start
    /\ Answer

\* C5: transform_char fails only when the sink fails and returns that error
\* unchanged; nothing is written after the first failed write (the character
\* is not written when the escape write failed), no write is retried, and
\* with no failed write it returns success.
C5_FailFast ==
    ret # "none" =>
        LET n == Len(calls)
            c == input[Len(input)]
            before == Expected(SubSeq(input, 1, Len(input) - 1))
            good == {i \in 1..n : calls[i].res = Ok}
        IN  /\ n >= 1 /\ n <= Len(Escaped(c))
            /\ \A i \in 1..n : calls[i].ch = Escaped(c)[i]
            /\ \A i \in 1..(n - 1) : calls[i].res = Ok
            /\ ret = calls[n].res
            /\ ret = Ok => n = Len(Escaped(c))
            /\ out = before \o [i \in 1..Cardinality(good) |-> calls[i].ch]

C5_Witness ==
    /\ ret \in SinkErrors
    /\ Len(calls) = 1
    /\ IsSpecial(input[Len(input)])
    /\ calls[1].ch = escape
    /\ input[Len(input)] # escape
    /\ Len(input) > 1

\* C6: transform_size_hint(n), n the encoded size of the input, is an upper
\* bound on the bytes the transform writes for that input.
C6_HintIsUpperBound ==
    (hint # <<>> /\ hint[1].arg = Bytes(input) /\ ~hint[1].panicked) =>
        Bytes(out) <= hint[1].value

\* C7: for an escape character of k bytes and any usize n,
\* transform_size_hint(n) returns n * k.
C7_HintIsProduct ==
    hint # <<>> =>
        /\ ~hint[1].panicked
        /\ hint[1].value = hint[1].arg * len_utf8(escape)

\* C8: every built-in set answers contains_char(c) by its rule.
C8_BuiltInRules ==
    Asked =>
        /\ chars.tag = "char" => (Answer <=> Q = chars.x)
        /\ chars.tag = "slice" => (Answer <=> Q \in Elems(chars.items))
        /\ chars.tag = "from" => (Answer <=> Q >= chars.start)
        /\ chars.tag = "to" => (Answer <=> Q < chars.end)
        /\ chars.tag = "full" => Answer
        /\ chars.tag = "pred" => (Answer <=> Q \in chars.on)
        /\ chars.tag = "ref" => (Answer <=> contains_char(chars.inner, Q))

C8_Witness ==
    /\ Asked
    /\ chars.tag = "ref"
    /\ chars.inner.tag = "to"
    /\ Q = chars.inner.end - 1
    /\ Answer

\* C9: when e is special or does not occur in the input, dropping each e of
\* the output and copying the character after it gives back the input.
C9_RoundTrip ==
    (Delivered /\ (IsSpecial(escape) \/ escape \notin Elems(input))) =>
        Decode(out) = input

C9_Witness ==
    /\ ret = Ok
    /\ Len(input) = MaxLen
    /\ IsSpecial(escape)
    /\ input[1] = escape
    /\ \E i \in DOMAIN input : ~IsSpecial(input[i])
    /\ Decode(out) = input

\* C10 as claimed: when e is not special, two different inputs, one of them
\* containing e, have the same output.
C10_TwoInputsOneOutput ==
    ~IsSpecial(escape) =>
        \E s \in SeqsUpTo(Chars, MaxLen), t \in SeqsUpTo(Chars, MaxLen) :
            /\ s # t
            /\ escape \in Elems(s) \cup Elems(t)
            /\ EscapeAll(Self, s) = EscapeAll(Self, t)

\* C10 amended: two different inputs never have the same output (what fails
\* to give back an input containing a non-special e is the decoder of C9).
C10_DifferentInputsDifferentOutputs == out = out2 => input = input2

C10_Witness ==
    /\ ~IsSpecial(escape)
    /\ escape \in Elems(input)
    /\ Decode(out) # input
    /\ input2 = Decode(out)
    /\ out2 # out

====
